---- MODULE Spec2Model ----
(***************************************************************************)
(* A model of nwb_query.py: TimeIntervals (a wrapper around the            *)
(* python-intervals backend), PointData, ContinuousData and EventData.     *)
(*                                                                         *)
(* Times are integers 0..MaxT.  An interval set is the backend's list of   *)
(* atomic closed intervals [lo, hi]; the backend keeps the empty set as a  *)
(* list holding one atomic interval (inf, -inf).  Every object is a value: *)
(* each operation is an operator that returns a record with a field        *)
(* "raised" naming the exception the call ends with ("none" if it          *)
(* returns).                                                               *)
(***************************************************************************)
EXTENDS Integers, Sequences, FiniteSets, TLC

\* ------------------------------------------------------------------ bounds
MaxT == 2
MaxRows == 2
MaxEvents == 2
MaxVal == 1

\* iv.inf: larger than every time; -iv.inf is NInf
PInf == 1000000
NInf == -PInf

T == 0..MaxT
\* the half-step grid on which two interval sets are compared as point sets
Grid2 == 0..(2 * MaxT)

Max2(a, b) == IF a >= b THEN a ELSE b
Min2(a, b) == IF a <= b THEN a ELSE b

\* ------------------------------------------------------ the interval backend
\* AtomicInterval(OPEN, inf, -inf, OPEN), the backend's empty interval
EmptyAtomic == [lo |-> PInf, hi |-> NInf]

AtomicIsEmpty(a) == a.lo > a.hi

\* iv.closed(s, e): an interval with s > e is empty
Closed(s, e) == IF s > e THEN EmptyAtomic ELSE [lo |-> s, hi |-> e]

\* AtomicInterval.__and__ for closed intervals
AtomicAnd(a, b) == Closed(Max2(a.lo, b.lo), Min2(a.hi, b.hi))

\* AtomicInterval.mergeable / __or__ for closed intervals: they overlap or touch
Mergeable(a, b) ==
  IF a.lo <= b.lo THEN a.hi >= b.lo ELSE b.hi >= a.lo

AtomicOr(a, b) == [lo |-> Min2(a.lo, b.lo), hi |-> Max2(a.hi, b.hi)]

\* AtomicInterval.__contains__(AtomicInterval): every bound of the model is
\* closed except those of the empty interval, which are equal to each other
AtomicContains(self, item) ==
  /\ (item.lo > self.lo \/ item.lo = self.lo)
  /\ (item.hi < self.hi \/ item.hi = self.hi)

RECURSIVE InsertByLower(_, _)
InsertByLower(a, s) ==
  IF s = <<>> THEN <<a>>
  ELSE IF a.lo < s[1].lo THEN <<a>> \o s
  ELSE <<s[1]>> \o InsertByLower(a, Tail(s))

\* list.sort(key=lower): stable
RECURSIVE SortByLower(_)
SortByLower(s) ==
  IF s = <<>> THEN <<>>
  ELSE InsertByLower(s[Len(s)], SortByLower(SubSeq(s, 1, Len(s) - 1)))

\* the merge loop of Interval.__init__
RECURSIVE MergeLoop(_)
MergeLoop(s) ==
  IF Len(s) < 2 THEN s
  ELSE IF Mergeable(s[1], s[2])
       THEN MergeLoop(<<AtomicOr(s[1], s[2])>> \o SubSeq(s, 3, Len(s)))
       ELSE <<s[1]>> \o MergeLoop(Tail(s))

\* Interval(*atomics): drop the empty ones, sort by lower bound, merge
MakeInterval(atoms) ==
  LET kept == SelectSeq(atoms, LAMBDA a : ~AtomicIsEmpty(a))
  IN  IF kept = <<>> THEN <<EmptyAtomic>> ELSE MergeLoop(SortByLower(kept))

\* iv.empty()
IvEmpty == <<EmptyAtomic>>

\* Interval.is_empty()
IvIsEmpty(I) == \A i \in DOMAIN I : AtomicIsEmpty(I[i])

\* Interval.__or__
IvOr(A, B) == MakeInterval(A \o B)

RECURSIVE Pairwise(_, _, _, _)
Pairwise(A, B, i, j) ==
  IF i > Len(A) THEN <<>>
  ELSE IF j > Len(B) THEN Pairwise(A, B, i + 1, 1)
  ELSE <<AtomicAnd(A[i], B[j])>> \o Pairwise(A, B, i, j + 1)

\* Interval.__and__: every pairwise intersection of the atomic intervals
IvAnd(A, B) == MakeInterval(Pairwise(A, B, 1, 1))

\* Interval.__contains__(AtomicInterval)
IvContainsAtomic(I, a) == \E i \in DOMAIN I : AtomicContains(I[i], a)

\* Interval.__contains__(value)
IvContainsValue(I, t) == \E i \in DOMAIN I : I[i].lo <= t /\ t <= I[i].hi

\* ------------------------------------------------------------ TimeIntervals
\* TimeIntervals.__make_intervals on an m x 2 array: repeated union
RECURSIVE make_intervals(_, _)
make_intervals(bounds, intervals) ==
  IF bounds = <<>> THEN intervals
  ELSE make_intervals(Tail(bounds),
                      IvOr(intervals, <<Closed(bounds[1][1], bounds[1][2])>>))

\* TimeIntervals(bounds) for an m x 2 array
TimeIntervalsInit(bounds) == make_intervals(bounds, IvEmpty)

\* TimeIntervals(): bounds is None
TimeIntervalsNone == IvEmpty

to_array(self) == [i \in DOMAIN self |-> <<self[i].lo, self[i].hi>>]

TI__and__(self, other) == IvAnd(self, other)

TI__or__(self, other) == IvOr(self, other)

\* TimeIntervals.__contains__ on a time
TI__contains__(self, t) == IvContainsValue(self, t)

\* TimeIntervals.__contains__ on an AtomicInterval, as EventData.__init__ calls it
TI__contains__atomic(self, a) == IvContainsAtomic(self, a)

TI__len__(self) == IF IvIsEmpty(self) THEN 0 ELSE Len(self)

\* ---------------------------------------------------------------- EventData
\* EventData.__init__ with np.any in place of np.all
EventDataInitAny(select_intervals, obs_intervals) ==
  IF \E i \in DOMAIN select_intervals :
       TI__contains__atomic(obs_intervals, select_intervals[i])
  THEN [raised |-> "none", select |-> select_intervals, obs |-> obs_intervals]
  ELSE [raised |-> "ValueError", select |-> IvEmpty, obs |-> IvEmpty]

\* EventData.__init__: the object, or the exception it raises
EventDataInit(select_intervals, obs_intervals) ==
  IF \A i \in DOMAIN select_intervals :
       TI__contains__atomic(obs_intervals, select_intervals[i])
  THEN [raised |-> "none", select |-> select_intervals, obs |-> obs_intervals]
  ELSE [raised |-> "ValueError", select |-> IvEmpty, obs |-> IvEmpty]

\* EventData.__contains__
ED__contains__(self, t) == TI__contains__(self.select, t)

\* EventData.supports
supports(self, t) == TI__contains__(self.obs, t)

\* EventData.__and__ / intersect
ED__and__(self, other) ==
  EventDataInit(TI__and__(self.select, other.select),
                TI__and__(self.obs, other.obs))

\* EventData.__or__ with the observation layer intersected instead of united
ED__or__ObsAnd(self, other) ==
  EventDataInit(TI__or__(self.select, other.select),
                TI__and__(self.obs, other.obs))

\* EventData.__or__ / union
ED__or__(self, other) ==
  EventDataInit(TI__or__(self.select, other.select),
                TI__or__(self.obs, other.obs))

\* ------------------------------------------------------------------ queries
\* a time_query argument: a TimeIntervals, an EventData, or something else
QueryTI(W) == [kind |-> "TimeIntervals", ti |-> W,
               ev |-> EventDataInit(IvEmpty, IvEmpty)]

QueryED(e) == [kind |-> "EventData", ti |-> IvEmpty, ev |-> e]

QueryOther == [kind |-> "other", ti |-> IvEmpty,
               ev |-> EventDataInit(IvEmpty, IvEmpty)]

\* the isinstance branches of time_query: the window intersected with obs
QueryWindow(q) == IF q.kind = "EventData" THEN q.ev.select ELSE q.ti

\* "t in query_intervals"
QueryContains(q, t) ==
  IF q.kind = "EventData" THEN ED__contains__(q.ev, t) ELSE TI__contains__(q.ti, t)

\* ----------------------------------------------------------- ContinuousData
\* a data array: its number of dimensions and one value per sample (row)
NoData(ndim) == [ndim |-> ndim, vals |-> <<>>]

NoCD == [raised |-> "none", data |-> NoData(1), timestamps |-> <<>>, obs |-> IvEmpty]

CDRaise(e) == [NoCD EXCEPT !.raised = e]

\* ContinuousData.__init__; obs_given is false when obs_intervals is None.
\* "not obs_intervals" is also true of a TimeIntervals whose __len__ is 0.
ContinuousDataInit(data, timestamps, obs_given, obs_intervals, find_gaps) ==
  IF ~obs_given \/ TI__len__(obs_intervals) = 0
  THEN IF find_gaps THEN CDRaise("AttributeError")
       ELSE IF timestamps = <<>> THEN CDRaise("IndexError")
       ELSE [raised |-> "none", data |-> data, timestamps |-> timestamps,
             obs |-> TimeIntervalsInit(
                       <<<<timestamps[1], timestamps[Len(timestamps)]>>>>)]
  ELSE [raised |-> "none", data |-> data, timestamps |-> timestamps,
        obs |-> obs_intervals]

\* np.searchsorted(a, v, side='left') on an ascending array: a 0-based index
searchsorted_left(a, v) == Cardinality({i \in DOMAIN a : a[i] < v})

\* np.searchsorted(a, v, side='right')
searchsorted_right(a, v) == Cardinality({i \in DOMAIN a : a[i] <= v})

\* a[lo:hi] with 0-based lo, hi
Slice(a, lo, hi) == SubSeq(a, lo + 1, hi)

RECURSIVE ConcatSlices(_, _, _)
ConcatSlices(a, ts, bounds) ==
  IF bounds = <<>> THEN <<>>
  ELSE Slice(a, searchsorted_left(ts, bounds[1][1]),
                searchsorted_right(ts, bounds[1][2]))
       \o ConcatSlices(a, ts, Tail(bounds))

\* ContinuousData.time_query.  data[lo:hi, :] needs an array of 2 dimensions.
CD_time_query(self, query_intervals) ==
  LET result_obs_intervals == TI__and__(self.obs, QueryWindow(query_intervals))
      result_bounds == to_array(result_obs_intervals)
  IN  IF query_intervals.kind \notin {"EventData", "TimeIntervals"}
      THEN CDRaise("TypeError")
      ELSE IF self.data.ndim < 2 THEN CDRaise("IndexError")
      ELSE ContinuousDataInit(
             [ndim |-> self.data.ndim,
              vals |-> ConcatSlices(self.data.vals, self.timestamps, result_bounds)],
             ConcatSlices(self.timestamps, self.timestamps, result_bounds),
             TRUE, result_obs_intervals, FALSE)

\* the indices 1..n in ascending order; np.where(cond)[0] selects from them
Indices(n) == [i \in 1..n |-> i]

\* filter_intervals with the "+ 1" of the up-crossings forgotten
filtered_intervalsEarly(self, func_of_data) ==
  LET n == Len(self.timestamps)
      up0 == SelectSeq(Indices(n), LAMBDA i : i < n /\ func_of_data[i + 1] /\ ~func_of_data[i])
      down0 == SelectSeq(Indices(n), LAMBDA i : i < n /\ func_of_data[i] /\ ~func_of_data[i + 1])
      up_crossings == IF func_of_data[1] THEN <<1>> \o up0 ELSE up0
      down_crossings == IF func_of_data[n] THEN down0 \o <<n>> ELSE down0
      interval_bounds == [k \in DOMAIN up_crossings |->
                            <<self.timestamps[up_crossings[k]],
                              self.timestamps[down_crossings[k]]>>]
  IN  IF Len(self.data.vals) = 0 THEN TimeIntervalsNone
      ELSE TimeIntervalsInit(interval_bounds)

\* the TimeIntervals ContinuousData.filter_intervals hands to EventData;
\* func_of_data is the predicate's value per sample.  Indices are 1-based here.
filtered_intervals(self, func_of_data) ==
  LET n == Len(self.timestamps)
      up0 == SelectSeq(Indices(n), LAMBDA i : i > 1 /\ func_of_data[i] /\ ~func_of_data[i - 1])
      down0 == SelectSeq(Indices(n), LAMBDA i : i < n /\ func_of_data[i] /\ ~func_of_data[i + 1])
      up_crossings == IF func_of_data[1] THEN <<1>> \o up0 ELSE up0
      down_crossings == IF func_of_data[n] THEN down0 \o <<n>> ELSE down0
      interval_bounds == [k \in DOMAIN up_crossings |->
                            <<self.timestamps[up_crossings[k]],
                              self.timestamps[down_crossings[k]]>>]
  IN  IF Len(self.data.vals) = 0 THEN TimeIntervalsNone
      ELSE TimeIntervalsInit(interval_bounds)

\* ContinuousData.filter_intervals
filter_intervals(self, func_of_data) ==
  EventDataInit(filtered_intervals(self, func_of_data), self.obs)

\* ---------------------------------------------------------------- PointData
\* a mark is the rational num/den; None is the mark with den = 0
NoneMark == [num |-> 0, den |-> 0]

IntMark(v) == [num |-> v, den |-> 1]

NoPD == [raised |-> "none", event_times |-> <<>>, obs |-> IvEmpty,
         has_marks |-> FALSE, marks |-> <<>>]

PDRaise(e) == [NoPD EXCEPT !.raised = e]

\* bool(marks) in "if marks and ...": None and the empty array are false, an
\* array of one element has the truth of that element, a longer one raises
MarksTruth(marks_given, marks) ==
  IF ~marks_given \/ Len(marks) = 0 THEN "false"
  ELSE IF Len(marks) > 1 THEN "ValueError"
  ELSE IF marks[1].den # 0 /\ marks[1].num # 0 THEN "true" ELSE "false"

\* PointData.__init__; marks_given is false when marks is None.  The second
\* check on marks reads self.event_times before it is assigned.
PointDataInit(event_times, obs_intervals, marks_given, marks) ==
  LET truth == MarksTruth(marks_given, marks)
  IN  IF truth = "ValueError" THEN PDRaise("ValueError")
      ELSE IF truth = "true" THEN PDRaise("AttributeError")
      ELSE [raised |-> "none", event_times |-> event_times, obs |-> obs_intervals,
            has_marks |-> marks_given, marks |-> marks]

\* PointData.time_query with the events filtered by result_obs_intervals
PD_time_queryByObs(self, query_intervals) ==
  LET result_obs_intervals == TI__and__(self.obs, QueryWindow(query_intervals))
      result_event_times ==
        SelectSeq(self.event_times,
                  LAMBDA t : TI__contains__(result_obs_intervals, t))
  IN  IF query_intervals.kind \notin {"EventData", "TimeIntervals"}
      THEN PDRaise("TypeError")
      ELSE PointDataInit(result_event_times, result_obs_intervals, FALSE, <<>>)

\* PointData.time_query
PD_time_query(self, query_intervals) ==
  LET result_obs_intervals == TI__and__(self.obs, QueryWindow(query_intervals))
      result_event_times ==
        SelectSeq(self.event_times, LAMBDA t : QueryContains(query_intervals, t))
  IN  IF query_intervals.kind \notin {"EventData", "TimeIntervals"}
      THEN PDRaise("TypeError")
      ELSE PointDataInit(result_event_times, result_obs_intervals, FALSE, <<>>)

\* interp1d(x=timestamps, y=data, kind='linear') refuses a time outside
\* [timestamps[0], timestamps[-1]] (bounds_error)
OutOfRange(continuous_data, t) ==
  \/ t < continuous_data.timestamps[1]
  \/ t > continuous_data.timestamps[Len(continuous_data.timestamps)]

\* the linear interpolator at t: between the samples lo and hi = lo + 1, hi
\* being searchsorted(x, t) clipped to 1..n-1 (0-based)
interpolator(continuous_data, t) ==
  LET x == continuous_data.timestamps
      y == continuous_data.data.vals
      hi == Max2(1, Min2(Len(x) - 1, searchsorted_left(x, t))) + 1
      lo == hi - 1
  IN  [num |-> (y[hi] - y[lo]) * (t - x[lo]) + y[lo] * (x[hi] - x[lo]),
       den |-> x[hi] - x[lo]]

\* PointData.mark_with_ContinuousData, for a continuous_data of at least two
\* samples whose data is 1-D or has one column.  With merge_obs_intervals
\* false the first event inside continuous_data.obs_intervals ends the call:
\* list.append is given two arguments.
mark_with_ContinuousData(self, continuous_data, merge_obs_intervals, interpolation) ==
  LET result_pp == PD_time_query(self, QueryTI(continuous_data.obs))
      inside == SelectSeq(self.event_times,
                          LAMBDA t : TI__contains__(continuous_data.obs, t))
      result_marks == [i \in DOMAIN self.event_times |-> NoneMark]
  IN  IF continuous_data.data.ndim > 1 /\ interpolation \notin {"nearest", "linear"}
      THEN PDRaise("NotImplementedError")
      ELSE IF merge_obs_intervals
      THEN IF \E i \in DOMAIN result_pp.event_times :
                OutOfRange(continuous_data, result_pp.event_times[i])
           THEN PDRaise("ValueError")
           ELSE [result_pp EXCEPT
                   !.has_marks = TRUE,
                   !.marks = [i \in DOMAIN result_pp.event_times |->
                                interpolator(continuous_data, result_pp.event_times[i])]]
      ELSE IF inside # <<>>
      THEN IF OutOfRange(continuous_data, inside[1])
           THEN PDRaise("ValueError")
           ELSE PDRaise("TypeError")
      ELSE IF result_marks = <<>> \/ continuous_data.data.ndim = 1
      THEN PDRaise("ValueError")
      ELSE PointDataInit(self.event_times, self.obs, TRUE, result_marks)

\* ------------------------------------------------------------------ inputs
Rows == T \X T

BoundsArrays == UNION {[1..n -> Rows] : n \in 0..MaxRows}

\* every TimeIntervals a caller can build from an array of at most MaxRows rows
TISet == {TimeIntervalsInit(b) : b \in BoundsArrays}

\* every EventData a caller can build from them
EDSet == {e \in {EventDataInit(s, o) : s \in TISet, o \in TISet} : e.raised = "none"}

RECURSIVE Ascending(_)
Ascending(S) ==
  IF S = {} THEN <<>>
  ELSE LET m == CHOOSE x \in S : \A y \in S : x <= y
       IN  <<m>> \o Ascending(S \ {m})

\* the strictly ascending timestamp sequences over T
TimestampSeqs == {Ascending(S) : S \in SUBSET T}

Vals == 0..MaxVal

\* EventData(TimeIntervals(), TimeIntervals())
NoED == EventDataInit(TimeIntervalsNone, TimeIntervalsNone)

NoEDCall == [op |-> "none", self |-> NoED, other |-> NoED, argSel |-> IvEmpty,
             argObs |-> IvEmpty, raised |-> "none", res |-> NoED]

\* the queries a caller can make
Queries == {QueryTI(W) : W \in TISet} \cup {QueryED(e) : e \in EDSet} \cup {QueryOther}

NoCDCall == [op |-> "none", self |-> NoCD, query |-> QueryOther, func |-> <<>>,
             raised |-> "none", res |-> NoCD, ev |-> NoED]

\* the event_times arrays of at most MaxEvents events, in any order
EventSeqs == UNION {[1..n -> T] : n \in 0..MaxEvents}

NoPDCall == [op |-> "none", self |-> NoPD, query |-> QueryOther, contObs |-> IvEmpty,
             merge |-> FALSE, interpolation |-> "linear", raised |-> "none",
             res |-> NoPD]

\* ------------------------------------------------------------------- state
\* tiA, tiB: two TimeIntervals; ed, cd: the EventData / ContinuousData last
\* built; edCall, cdCall: the last call with its arguments and outcome;
\* pd, pdCall: the same for PointData; phase: how far the component's run
\* has got
VARIABLES tiA, tiB, phase, ed, edCall, cd, cdCall, pd, pdCall

vars == <<tiA, tiB, phase, ed, edCall, cd, cdCall, pd, pdCall>>

Init ==
  /\ tiA = TimeIntervalsNone
  /\ tiB = TimeIntervalsNone
  /\ phase = "start"
  /\ ed = NoED
  /\ edCall = NoEDCall
  /\ cd = NoCD
  /\ cdCall = NoCDCall
  /\ pd = NoPD
  /\ pdCall = NoPDCall

\* ------------------------------------------------------ TimeIntervals steps
NewTimeIntervals ==
  /\ \E b \in BoundsArrays :
       /\ tiA' = TimeIntervalsInit(b)
       /\ tiB' = tiA
  /\ UNCHANGED <<phase, ed, edCall, cd, cdCall, pd, pdCall>>

NewEmptyTimeIntervals ==
  /\ tiA' = TimeIntervalsNone
  /\ tiB' = tiA
  /\ UNCHANGED <<phase, ed, edCall, cd, cdCall, pd, pdCall>>

TIIntersect ==
  /\ tiA' = TI__and__(tiA, tiB)
  /\ tiB' = tiB
  /\ UNCHANGED <<phase, ed, edCall, cd, cdCall, pd, pdCall>>

TIUnion ==
  /\ tiA' = TI__or__(tiA, tiB)
  /\ tiB' = tiB
  /\ UNCHANGED <<phase, ed, edCall, cd, cdCall, pd, pdCall>>

NextTI == NewTimeIntervals \/ NewEmptyTimeIntervals \/ TIIntersect \/ TIUnion

SpecTI == Init /\ [][NextTI]_vars

\* ---------------------------------------------------------- EventData steps
\* the outcome of a call that ends in EventData.__init__(argSel, argObs)
EDOutcome(op, self, other, argSel, argObs, r) ==
  /\ edCall' = [op |-> op, self |-> self, other |-> other, argSel |-> argSel,
                argObs |-> argObs, raised |-> r.raised, res |-> r]
  /\ ed' = IF r.raised = "none" THEN r ELSE ed
  /\ UNCHANGED <<tiA, tiB, cd, cdCall, pd, pdCall>>

\* EventData(select_intervals, obs_intervals)
NewEventData ==
  /\ phase = "start"
  /\ \E s \in TISet, o \in TISet :
       EDOutcome("init", NoED, NoED, s, o, EventDataInit(s, o))
  /\ phase' = IF edCall'.raised # "none" THEN "done" ELSE "built"

\* continuous.filter_intervals(lambda x: x > 0) on 0/1 data
EventFromFilter ==
  /\ phase = "start"
  /\ \E ts \in TimestampSeqs, g \in BOOLEAN, o \in TISet :
     \E f \in [1..Len(ts) -> BOOLEAN] :
       LET c == ContinuousDataInit(
                  [ndim |-> 1, vals |-> [i \in 1..Len(ts) |-> IF f[i] THEN 1 ELSE 0]],
                  ts, g, o, FALSE)
       IN  /\ g \/ o = IvEmpty
           /\ c.raised = "none"
           /\ EDOutcome("filter", NoED, NoED, filtered_intervals(c, f), c.obs,
                        filter_intervals(c, f))
  /\ phase' = IF edCall'.raised # "none" THEN "done" ELSE "built"

\* ed.intersect(other)
EventIntersect ==
  /\ phase = "built"
  /\ phase' = "done"
  /\ \E other \in EDSet :
       EDOutcome("and", ed, other, TI__and__(ed.select, other.select),
                 TI__and__(ed.obs, other.obs), ED__and__(ed, other))

\* ed.union(other)
EventUnion ==
  /\ phase = "built"
  /\ phase' = "done"
  /\ \E other \in EDSet :
       EDOutcome("or", ed, other, TI__or__(ed.select, other.select),
                 TI__or__(ed.obs, other.obs), ED__or__(ed, other))

NextEvent == NewEventData \/ EventFromFilter \/ EventIntersect \/ EventUnion

SpecEvent == Init /\ [][NextEvent]_vars

\* ----------------------------------------------------- ContinuousData steps
\* ContinuousData(data, timestamps, obs_intervals, find_gaps)
NewContinuousData ==
  /\ phase = "start"
  /\ \E ts \in TimestampSeqs, ndim \in {1, 2}, g \in BOOLEAN, o \in TISet,
        find_gaps \in BOOLEAN :
     \E vals \in [1..Len(ts) -> Vals] :
       LET r == ContinuousDataInit([ndim |-> ndim, vals |-> vals], ts, g, o, find_gaps)
       IN  /\ g \/ o = IvEmpty
           /\ cdCall' = [NoCDCall EXCEPT !.op = "init", !.query = QueryTI(o),
                                         !.raised = r.raised, !.res = r]
           /\ cd' = IF r.raised = "none" THEN r ELSE cd
           /\ phase' = IF r.raised = "none" THEN "built" ELSE "done"
  /\ UNCHANGED <<tiA, tiB, ed, edCall, pd, pdCall>>

\* cd.time_query(q)
ContTimeQuery ==
  /\ phase = "built"
  /\ \E q \in Queries :
       LET r == CD_time_query(cd, q)
       IN  cdCall' = [NoCDCall EXCEPT !.op = "time_query", !.self = cd, !.query = q,
                                      !.raised = r.raised, !.res = r]
  /\ phase' = "done"
  /\ UNCHANGED <<tiA, tiB, ed, edCall, cd, pd, pdCall>>

\* cd.filter_intervals(func), func giving one boolean per sample
ContFilterIntervals ==
  /\ phase = "built"
  /\ \E f \in [1..Len(cd.timestamps) -> BOOLEAN] :
       LET e == filter_intervals(cd, f)
       IN  cdCall' = [NoCDCall EXCEPT !.op = "filter", !.self = cd, !.func = f,
                                      !.raised = e.raised, !.ev = e]
  /\ phase' = "done"
  /\ UNCHANGED <<tiA, tiB, ed, edCall, cd, pd, pdCall>>

NextCont == NewContinuousData \/ ContTimeQuery \/ ContFilterIntervals

SpecCont == Init /\ [][NextCont]_vars

NextContFilter == NewContinuousData \/ ContFilterIntervals

\* ContinuousData built by its constructor and filtered
SpecContFilter == Init /\ [][NextContFilter]_vars

\* ---------------------------------------------------------- PointData steps
\* PointData(event_times, obs_intervals, marks), marks being None or one
\* integer mark per event of a non-empty event_times
NewPointData ==
  /\ phase = "start"
  /\ \E ev \in EventSeqs, o \in TISet, marks_given \in BOOLEAN :
     \E m \in [1..Len(ev) -> Vals] :
       LET marks == [i \in 1..Len(ev) |-> IntMark(m[i])]
           r == PointDataInit(ev, o, marks_given, IF marks_given THEN marks ELSE <<>>)
       IN  /\ marks_given \/ \A i \in 1..Len(ev) : m[i] = 0
           /\ marks_given => Len(ev) >= 1
           /\ pdCall' = [NoPDCall EXCEPT !.op = "init", !.raised = r.raised, !.res = r]
           /\ pd' = IF r.raised = "none" THEN r ELSE pd
           /\ phase' = IF r.raised = "none" THEN "built" ELSE "done"
  /\ UNCHANGED <<tiA, tiB, ed, edCall, cd, cdCall>>

\* pd.mark_with_ContinuousData(c, merge_obs_intervals, interpolation), c being
\* a ContinuousData of at least two samples; 'cubic' is tried on 2-D data only
PointMarkWith ==
  /\ phase = "built"
  /\ \E ts \in TimestampSeqs, ndim \in {1, 2}, g \in BOOLEAN, o \in TISet,
        merge \in BOOLEAN, interpolation \in {"linear", "cubic"} :
     \E vals \in [1..Len(ts) -> Vals] :
       LET c == ContinuousDataInit([ndim |-> ndim, vals |-> vals], ts, g, o, FALSE)
           r == mark_with_ContinuousData(pd, c, merge, interpolation)
       IN  /\ Len(ts) >= 2
           /\ g \/ o = IvEmpty
           /\ interpolation = "cubic" => ndim = 2
           /\ c.raised = "none"
           /\ pdCall' = [NoPDCall EXCEPT !.op = "mark_with", !.self = pd,
                                         !.contObs = c.obs, !.merge = merge,
                                         !.interpolation = interpolation,
                                         !.raised = r.raised, !.res = r]
           /\ pd' = IF r.raised = "none" THEN r ELSE pd
           /\ phase' = IF r.raised = "none" THEN "marked" ELSE "done"
  /\ UNCHANGED <<tiA, tiB, ed, edCall, cd, cdCall>>

\* pd.time_query(q)
PointTimeQuery ==
  /\ phase \in {"built", "marked"}
  /\ \E q \in Queries :
       LET r == PD_time_query(pd, q)
       IN  pdCall' = [NoPDCall EXCEPT !.op = "time_query", !.self = pd, !.query = q,
                                      !.raised = r.raised, !.res = r]
  /\ phase' = "done"
  /\ UNCHANGED <<tiA, tiB, ed, edCall, cd, cdCall, pd>>

NextPoint == NewPointData \/ PointMarkWith \/ PointTimeQuery

SpecPoint == Init /\ [][NextPoint]_vars

NextPointQuery == NewPointData \/ PointTimeQuery

\* PointData built by its constructor and queried
SpecPointQuery == Init /\ [][NextPointQuery]_vars

\* ------------------------------------------------------------- properties
\* t/2 lies in the interval set I (t on the half-step grid)
In2(I, t) == \E i \in DOMAIN I : 2 * I[i].lo <= t /\ t <= 2 * I[i].hi

\* every non-empty interval of sel lies within one interval of obs
WithinSupport(sel, obs) ==
  \A i \in DOMAIN sel :
    sel[i].lo <= sel[i].hi =>
      \E j \in DOMAIN obs : obs[j].lo <= sel[i].lo /\ sel[i].hi <= obs[j].hi

\* C1: every EventData that exists has select_intervals within obs_intervals;
\* a construction (direct, or inside intersect, union, filter_intervals)
\* returns the object exactly when the selection lies within the support and
\* otherwise raises ValueError and yields no object.
C1_SelectWithinObs ==
  /\ WithinSupport(ed.select, ed.obs)
  /\ edCall.op # "none" =>
       /\ edCall.raised \in {"none", "ValueError"}
       /\ edCall.raised = "none" <=> WithinSupport(edCall.argSel, edCall.argObs)
       /\ edCall.raised = "none" =>
            /\ ed = edCall.res
            /\ ed.select = edCall.argSel
            /\ ed.obs = edCall.argObs
       /\ edCall.raised = "ValueError" => ed = edCall.self

\* a direct construction was refused although the support is not empty, and
\* one interval of the selection does lie within the support
C1_Witness ==
  /\ edCall.op = "init"
  /\ edCall.raised = "ValueError"
  /\ Len(edCall.argSel) = 2
  /\ \E i \in DOMAIN edCall.argSel :
       TI__contains__atomic(edCall.argObs, edCall.argSel[i])

\* C10: intersect and union of two valid EventData never raise, and return
\* the intersection (union) of the selections and of the observation sets,
\* each layer on its own.
C10_ClosedUnderAlgebra ==
  edCall.op \in {"and", "or"} =>
    /\ edCall.raised = "none"
    /\ \A t \in Grid2 :
         /\ In2(edCall.res.select, t) <=>
              IF edCall.op = "and"
              THEN In2(edCall.self.select, t) /\ In2(edCall.other.select, t)
              ELSE In2(edCall.self.select, t) \/ In2(edCall.other.select, t)
         /\ In2(edCall.res.obs, t) <=>
              IF edCall.op = "and"
              THEN In2(edCall.self.obs, t) /\ In2(edCall.other.obs, t)
              ELSE In2(edCall.self.obs, t) \/ In2(edCall.other.obs, t)

\* a union merged two touching selection intervals into one
C10_Witness ==
  /\ edCall.op = "or"
  /\ edCall.raised = "none"
  /\ Len(edCall.res.select) = 1
  /\ \E i \in DOMAIN edCall.self.select, j \in DOMAIN edCall.other.select :
       /\ edCall.self.select[i].lo < edCall.self.select[i].hi
       /\ edCall.self.select[i].hi = edCall.other.select[j].lo
       /\ edCall.other.select[j].lo < edCall.other.select[j].hi

\* the interval sets A and B share no time
Disjoint(A, B) == \A t \in Grid2 : ~(In2(A, t) /\ In2(B, t))

\* R is the intersection of A and B as sets of times
IsMeet(R, A, B) == \A t \in Grid2 : In2(R, t) <=> (In2(A, t) /\ In2(B, t))

\* the elements of seq at the indices idx, in that order
Pick(seq, idx) == [k \in DOMAIN idx |-> seq[idx[k]]]

\* the indices of the timestamps of the last time_query that lie in both
\* obs_intervals and the query window
SurvivingSamples ==
  SelectSeq(Indices(Len(cdCall.self.timestamps)),
        LAMBDA i : /\ In2(cdCall.self.obs, 2 * cdCall.self.timestamps[i])
                   /\ In2(QueryWindow(cdCall.query), 2 * cdCall.self.timestamps[i]))

\* what C3 promises of a time_query whose window meets obs_intervals
SlicedByObs ==
  /\ cdCall.raised = "none"
  /\ IsMeet(cdCall.res.obs, cdCall.self.obs, QueryWindow(cdCall.query))
  /\ cdCall.res.timestamps = Pick(cdCall.self.timestamps, SurvivingSamples)
  /\ cdCall.res.data.vals = Pick(cdCall.self.data.vals, SurvivingSamples)
  /\ Len(cdCall.res.data.vals) = Len(cdCall.res.timestamps)
  /\ \A i \in DOMAIN cdCall.res.timestamps :
       In2(cdCall.res.obs, 2 * cdCall.res.timestamps[i])

\* C3: a ContinuousData time_query whose window meets obs_intervals returns
\* obs_intervals = obs /\ W and exactly the samples with lo <= t <= hi for an
\* interval [lo, hi] of it, in order, data and timestamps at the same indices.
C3_TimeQuerySlices ==
  ( /\ cdCall.op = "time_query"
    /\ cdCall.query.kind # "other"
    /\ ~Disjoint(cdCall.self.obs, QueryWindow(cdCall.query)) )
  => SlicedByObs

\* the same for data of two dimensions (samples x columns)
TimeQuerySlices2D ==
  ( /\ cdCall.op = "time_query"
    /\ cdCall.query.kind # "other"
    /\ cdCall.self.data.ndim = 2
    /\ ~Disjoint(cdCall.self.obs, QueryWindow(cdCall.query)) )
  => SlicedByObs

\* C4: a ContinuousData time_query whose window misses obs_intervals returns,
\* without raising, empty data, empty timestamps and an empty obs_intervals.
C4_EmptyQueryReturnsEmpty ==
  ( /\ cdCall.op = "time_query"
    /\ cdCall.query.kind # "other"
    /\ Disjoint(cdCall.self.obs, QueryWindow(cdCall.query)) )
  => /\ cdCall.raised = "none"
     /\ cdCall.res.timestamps = <<>>
     /\ cdCall.res.data.vals = <<>>
     /\ TI__len__(cdCall.res.obs) = 0

\* the maximal runs <<i, j>> of consecutive true samples of the last filter
Runs ==
  LET f == cdCall.func
      n == Len(f)
  IN  {r \in (1..n) \X (1..n) :
         /\ r[1] <= r[2]
         /\ \A k \in r[1]..r[2] : f[k]
         /\ r[1] = 1 \/ ~f[r[1] - 1]
         /\ r[2] = n \/ ~f[r[2] + 1]}

RunIntervals ==
  {[lo |-> cdCall.self.timestamps[r[1]], hi |-> cdCall.self.timestamps[r[2]]] :
     r \in Runs}

\* the last call is a filter_intervals on samples that all lie in obs_intervals
FilterOnSupportedSamples ==
  /\ cdCall.op = "filter"
  /\ \A i \in DOMAIN cdCall.self.timestamps :
       In2(cdCall.self.obs, 2 * cdCall.self.timestamps[i])

\* the EventData returned has the unchanged obs_intervals and one interval
\* [timestamps[i], timestamps[j]] per maximal run
OneIntervalPerRun ==
  /\ cdCall.raised = "none"
  /\ cdCall.ev.obs = cdCall.self.obs
  /\ {cdCall.ev.select[k] : k \in 1..TI__len__(cdCall.ev.select)} = RunIntervals
  /\ TI__len__(cdCall.ev.select) = Cardinality(Runs)
  /\ \A k \in 1..(Len(cdCall.ev.select) - 1) :
       cdCall.ev.select[k].hi < cdCall.ev.select[k + 1].lo

\* C5 as stated: filter_intervals on samples within obs_intervals (which may
\* have gaps) returns obs_intervals unchanged and one interval per maximal run
\* of true samples; none when no sample is true or there is no sample.
C5_AsStated == FilterOnSupportedSamples => OneIntervalPerRun

\* C5 as amended: it does so exactly when every run lies within a single
\* interval of obs_intervals, and otherwise raises ValueError.
C5_OneIntervalPerRun ==
  FilterOnSupportedSamples =>
    /\ cdCall.raised \in {"none", "ValueError"}
    /\ cdCall.raised = "none" <=>
         \A r \in RunIntervals :
           \E j \in DOMAIN cdCall.self.obs :
             cdCall.self.obs[j].lo <= r.lo /\ r.hi <= cdCall.self.obs[j].hi
    /\ cdCall.raised = "none" => OneIntervalPerRun

\* two runs, the first from index 0 and the last to the last index, were
\* turned into two intervals over an obs_intervals with a gap
C5_Witness ==
  /\ FilterOnSupportedSamples
  /\ cdCall.raised = "none"
  /\ Len(cdCall.self.obs) = 2
  /\ Cardinality(Runs) = 2
  /\ cdCall.func[1]
  /\ cdCall.func[Len(cdCall.func)]
  /\ TI__len__(cdCall.ev.select) = 2

\* every event of the PointData p lies in its obs_intervals
EventsSupported(p) ==
  \A i \in DOMAIN p.event_times : In2(p.obs, 2 * p.event_times[i])

\* the indices of the events of the last PointData time_query that lie in the
\* query window
SurvivingEvents ==
  SelectSeq(Indices(Len(pdCall.self.event_times)),
        LAMBDA i : In2(QueryWindow(pdCall.query), 2 * pdCall.self.event_times[i]))

PointQueryDone == pdCall.op = "time_query" /\ pdCall.query.kind # "other"

\* obs_intervals = P.obs /\ W, event_times = the events of P in W, in order;
\* supported events stay supported
PointQueryResult ==
  /\ pdCall.raised = "none"
  /\ IsMeet(pdCall.res.obs, pdCall.self.obs, QueryWindow(pdCall.query))
  /\ pdCall.res.event_times = Pick(pdCall.self.event_times, SurvivingEvents)
  /\ EventsSupported(pdCall.self) => EventsSupported(pdCall.res)

C7_MarksFollowEvents ==
  ( /\ PointQueryDone
    /\ pdCall.self.has_marks
    /\ Len(pdCall.self.marks) = Len(pdCall.self.event_times)
    /\ \E k \in DOMAIN SurvivingEvents :
         pdCall.self.marks[SurvivingEvents[k]].num # 0 )
  => /\ pdCall.raised = "none"
     /\ pdCall.res.has_marks
     /\ pdCall.res.marks = Pick(pdCall.self.marks, SurvivingEvents)
     /\ Len(pdCall.res.marks) = Len(pdCall.res.event_times)

\* C6: a time_query with the dataset's own obs_intervals returns the dataset
\* unchanged: obs_intervals, event_times / timestamps and data, and marks
\* (stated of the datasets that have an event or sample, all of them within
\* obs_intervals).
C6_QueryOwnWindow ==
  /\ ( /\ PointQueryDone
       /\ pdCall.query = QueryTI(pdCall.self.obs)
       /\ pdCall.self.event_times # <<>>
       /\ EventsSupported(pdCall.self) )
     => /\ pdCall.raised = "none"
        /\ pdCall.res = pdCall.self
  /\ ( /\ cdCall.op = "time_query"
       /\ cdCall.query = QueryTI(cdCall.self.obs)
       /\ cdCall.self.timestamps # <<>>
       /\ \A i \in DOMAIN cdCall.self.timestamps :
            In2(cdCall.self.obs, 2 * cdCall.self.timestamps[i]) )
     => /\ cdCall.raised = "none"
        /\ cdCall.res = cdCall.self

\* C8: mark_with with merge_obs_intervals false keeps every event and
\* obs_intervals and gives one mark per event: an interpolated value inside
\* continuous.obs_intervals, the undefined mark outside; it does not fail
\* (stated of the calls with linear interpolation and an event inside
\* continuous.obs_intervals).
C8_MarkWithoutMerge ==
  ( /\ pdCall.op = "mark_with"
    /\ ~pdCall.merge
    /\ pdCall.interpolation = "linear"
    /\ \E i \in DOMAIN pdCall.self.event_times :
         In2(pdCall.contObs, 2 * pdCall.self.event_times[i]) )
  => /\ pdCall.raised = "none"
     /\ pdCall.res.event_times = pdCall.self.event_times
     /\ pdCall.res.obs = pdCall.self.obs
     /\ pdCall.res.has_marks
     /\ Len(pdCall.res.marks) = Len(pdCall.self.event_times)
     /\ \A i \in DOMAIN pdCall.res.marks :
          (pdCall.res.marks[i] = NoneMark) <=>
            ~In2(pdCall.contObs, 2 * pdCall.self.event_times[i])

\* sorted, disjoint and not touching, each interval with lo <= hi
Canonical(rows) ==
  \A i \in DOMAIN rows :
    /\ rows[i][1] <= rows[i][2]
    /\ i < Len(rows) => rows[i][2] < rows[i + 1][1]

\* C9: every TimeIntervals is canonical, to_array() has len() rows, and len()
\* is 0 for the empty set.
C9_CanonicalForm ==
  \A X \in {tiA, tiB} :
    /\ Canonical(to_array(X))
    /\ Len(to_array(X)) = TI__len__(X)
    /\ (\A t \in Grid2 : ~In2(X, t)) => TI__len__(X) = 0

\* the same of every TimeIntervals that is not empty, and len() = 0 of the empty
CanonicalUnlessEmpty ==
  \A X \in {tiA, tiB} :
    /\ (\A t \in Grid2 : ~In2(X, t)) <=> TI__len__(X) = 0
    /\ TI__len__(X) > 0 =>
         /\ Canonical(to_array(X))
         /\ Len(to_array(X)) = TI__len__(X)

====
